---------------------------- MODULE Spec2Model ----------------------------
(***************************************************************************)
(* RTMP stream sessions of the Electron main process.                      *)
(*                                                                         *)
(* The repository holds the same session logic three times:                *)
(*   src/main/shared/rtmp/cameraRtmp/cameraRtmp.ts  camera stream module   *)
(*   src/main/shared/ffmpegUtils.ts (l. 126-362)    screen stream module   *)
(*   src/main/index.ts                              both streams, sharing  *)
(*                                                  ONE streamStatus       *)
(* A behaviour of this model runs one of the three (variable `module`).    *)
(* Each module owns a process handle per stream kind (ffmpegProcess for    *)
(* the camera, ffmpegProcess2 for the screen) and one status record        *)
(* (streamStatus).  JavaScript runs every handler to completion, so each   *)
(* handler, or each part of an async function between two awaits, is one   *)
(* atomic action.  The encoder subprocesses and the passing of time are    *)
(* the environment.                                                        *)
(*                                                                         *)
(* A handle holds the ChildProcess object it refers to (its state is part  *)
(* of the value), or NoProcess for null.  A ChildProcess that no handle    *)
(* refers to any more (stop has nulled the handle, or another start has    *)
(* overwritten it) still exists and still has its 'close' listener: these  *)
(* are kept in the bag `detached`.                                         *)
(***************************************************************************)
EXTENDS Integers, Sequences, FiniteSets, Bags, TLC

\* Bounds of the model.
MaxProcs == 3      \* encoder subprocesses that exist at the same time
MaxCalls == 2      \* start requests suspended at an await at the same time

Modules == {"cameraRtmp", "ffmpegUtils", "index"}
Kinds == {"camera", "screen"}

\* The stream kinds a module serves.
KindsOf(m) ==
    IF m = "cameraRtmp" THEN {"camera"}
    ELSE IF m = "ffmpegUtils" THEN {"screen"}
    ELSE {"camera", "screen"}

\* process.platform
Platforms == {"darwin", "win32", "linux"}

\* The sink addresses callers pass: 'rtmp://h/k'.
RtmpUrls == {<<"r", "t", "m", "p", ":", "/", "/", "h", "/", "k">>}

\* Date.now(): a positive time stamp (one stands for all of them).
Timestamps == {1}

\* `code` of a 'close' event of a process that a signal ended (JavaScript null).
NullCode == -1
\* Exit codes of a process that ended by itself, and of one that was sent SIGTERM.
OwnExitCodes == {0, 1}
TermExitCodes == {0, 1, NullCode}

\* `FFmpeg exited with code ${code}`
ExitMessage(code) ==
    IF code = NullCode THEN "FFmpeg exited with code null"
    ELSE IF code = 0 THEN "FFmpeg exited with code 0"
    ELSE "FFmpeg exited with code 1"

\* What spawn() throws when ffmpegStatic is null: spawn('') is rejected.
SpawnErrorMessage == "The argument 'file' cannot be empty"
\* What a rejected desktopCapturer.getSources() throws.
SourcesErrorMessage == "Error: Failed to get sources"

VARIABLES
    module,          \* which of the three copies of the session code runs
    ffmpegStatic,    \* TRUE: the bundled encoder path is known; FALSE: it is null
    ffmpegProcess,   \* camera process handle: a ChildProcess, or NoProcess
    ffmpegProcess2,  \* screen process handle: a ChildProcess, or NoProcess
    streamStatus,    \* the module's status record
    held,            \* what a caller got from a status getter: the value it
                     \*       read, the value it holds now, and whether it
                     \*       holds the object streamStatus refers to
    detached,        \* bag of the ChildProcess objects no handle refers to
    calls,           \* bag of the start requests suspended at an await
    lastEvent,       \* the handler or event that ran last, with what it returned
    okInRow,         \* per kind: successful starts since the last stop, exit or close
    spawned,         \* the last spawn() call: the request and the argument vector
    planned,         \* args: the argument vector of the first spawn() call made
                     \*       for the watched request (<<>>: none yet);
                     \*       again: another such call has been made since
    watched,         \* a request, whose argument vectors are compared
    platform,        \* process.platform
    binaryRuns,      \* TRUE: the file at the encoder path can be executed
    uncaught,        \* TRUE: an exception or 'error' event no handler caught
                     \*       has reached the main process
    applied,         \* the last call of a function that reads no module state:
                     \*       its name, its arguments and what it returned
    listings,        \* bag of the listAvailableDevices() calls in flight, each
                     \*       with its caller and its listing subprocess
    probed           \* the last listAvailableDevices() call that settled: how,
                     \*       and what its caller returned

\* The variables of the sessions, and the variables no session handler writes.
sessionVars == <<module, ffmpegStatic, ffmpegProcess, ffmpegProcess2, streamStatus,
                 held, detached, calls, lastEvent, okInRow, spawned, planned>>
envVars == <<watched, platform, binaryRuns>>
probeVars == <<listings, probed>>
otherVars == <<envVars, uncaught, applied, probeVars>>

vars == <<sessionVars, otherVars>>

\* let streamStatus = { isStreaming: false, streamUrl: '', startTime: 0, error: '' }
InitialStatus ==
    [isStreaming |-> FALSE, streamUrl |-> "", startTime |-> 0, error |-> ""]

\* No caller has read the status yet.
NoHeld ==
    [taken |-> FALSE, live |-> FALSE, read |-> InitialStatus, value |-> InitialStatus]

\* let ffmpegProcess: ChildProcessWithoutNullStreams | null  -- the null handle.
NoProcess ==
    [st |-> "null", kind |-> "camera", termed |-> FALSE, killed |-> FALSE,
     code |-> 0, graceOver |-> FALSE, termTimeout |-> FALSE]

\* The ChildProcess spawn() returns for stream kind k:
\*   st: "running", "exited" (ended, 'close' not yet emitted), "closed";
\*       "spawnError" when the file could not be executed (the 'error' event
\*       is still to be emitted), and "failed" once it has been emitted
\*   termed: SIGTERM was sent to it;   code: its exit code, once it has ended
\*   killed: SIGKILL was sent to it (no line of the source sends one)
\*   graceOver: it has outlived the grace window after its spawn
\*   termTimeout: it has outlived the stop timeout after its SIGTERM
NewProcess(k) ==
    [st |-> IF binaryRuns THEN "running" ELSE "spawnError", kind |-> k, termed |-> FALSE, killed |-> FALSE,
     code |-> 0, graceOver |-> FALSE, termTimeout |-> FALSE]

\* What every handler and event leaves in lastEvent.
\*   op, kind: which handler or event, of which stream kind
\*   result: what a start or stop returned ("Pending": start is at its await)
\*   code, stopped: of an exit or close, the exit code and whether SIGTERM
\*       had been sent to the process
\*   referenced: of an exit or close, whether the handle referred to the process
\*   afterCrash: of a start, whether the event before it was the 'close' of a
\*       process of this kind that no stop had signalled
\* `applied` before the first call.
NoApplication == [fn |-> "none", arg |-> <<>>, out |-> <<>>]

\* `watched` when no request is watched.
NoRequest == <<>>

\* `planned` before the first spawn() call for the watched request.
NoPlan == [args |-> <<>>, again |-> FALSE]

\* `spawned` before the first spawn() call.
NoProbe ==
    [caller |-> "none", deviceId |-> <<>>, spawnFailed |-> FALSE, lines |-> <<>>,
     settled |-> "pending", result |-> <<>>]
NoSpawn == [kind |-> "none", request |-> <<>>, args |-> <<>>]

Event(op, kind, result, code, stopped, referenced, afterCrash) ==
    [op |-> op, kind |-> kind, result |-> result, code |-> code,
     stopped |-> stopped, referenced |-> referenced, afterCrash |-> afterCrash]

InitSessions ==
    /\ module \in Modules
    /\ ffmpegStatic \in BOOLEAN
    /\ ffmpegProcess = NoProcess
    /\ ffmpegProcess2 = NoProcess
    /\ streamStatus = InitialStatus
    /\ held = NoHeld
    /\ detached = EmptyBag
    /\ calls = EmptyBag
    /\ lastEvent = Event("init", "camera", "", 0, FALSE, FALSE, FALSE)
    /\ okInRow = [k \in Kinds |-> 0]
    /\ spawned = NoSpawn
    /\ planned = NoPlan

\* The main process has started; the encoder binary is in place.  The
\* handlers read process.platform only to fill the argument vector: the
\* sessions are followed on one platform.
Init ==
    /\ InitSessions
    /\ watched = NoRequest
    /\ platform = "darwin"
    /\ binaryRuns = TRUE
    /\ uncaught = FALSE
    /\ applied = NoApplication
    /\ listings = EmptyBag
    /\ probed = NoProbe

\* The event before this one was the 'close' of a process of kind k that had
\* ended by itself (no stop had signalled it).
AfterCrash(k) ==
    lastEvent.op = "close" /\ lastEvent.kind = k /\ ~lastEvent.stopped

\* What a start of kind k leaves in lastEvent when it returns `result`.
StartEvent(k, result) == Event("start", k, result, 0, FALSE, FALSE, AfterCrash(k))

\* What the 'close' of ChildProcess r leaves in lastEvent.
CloseEvent(r, referenced) ==
    Event("close", r.kind, "", r.code, r.termed, referenced, FALSE)

\* What the passing of time leaves in lastEvent.
TimeEvent == Event("time", "camera", "", 0, FALSE, FALSE, FALSE)

\* The handle of a stream kind.
Handle(k) == IF k = "camera" THEN ffmpegProcess ELSE ffmpegProcess2

\* One more / one fewer copy of x in bag b.
BagAdd(b, x) == b (+) SetToBag({x})
BagRemove(b, x) == b (-) SetToBag({x})

\* Every ChildProcess of kind k whose 'close' has not been handled, as a bag.
Processes(k) ==
    LET own == IF Handle(k).st \in {"running", "exited"}
               THEN SetToBag({Handle(k)}) ELSE EmptyBag
        others == [r \in {x \in BagToSet(detached) : x.kind = k} |->
                       CopiesIn(r, detached)]
    IN  own (+) others

\* How many encoder subprocesses of kind k the operating system still runs.
AliveCount(k) ==
    LET live == {r \in BagToSet(Processes(k)) : r.st = "running"}
    IN  BagCardinality([r \in live |-> CopiesIn(r, Processes(k))])

\* How many ChildProcess objects exist.
ProcessCount ==
    BagCardinality(detached)
    + (IF ffmpegProcess.st = "null" THEN 0 ELSE 1)
    + (IF ffmpegProcess2.st = "null" THEN 0 ELSE 1)

(***************************************************************************)
(* Text.  A string whose characters the code looks at (a screen id, a       *)
(* source name, a line of the device listing) is a sequence of              *)
(* one-character strings; a string the code only passes on is a string.    *)
(***************************************************************************)
Digits == {"0", "1", "2", "3", "4", "5", "6", "7", "8", "9"}

\* t occurs in s at position i
OccursAt(s, t, i) ==
    /\ i >= 1
    /\ i + Len(t) - 1 <= Len(s)
    /\ SubSeq(s, i, i + Len(t) - 1) = t

\* s.startsWith(t)
StartsWith(s, t) == OccursAt(s, t, 1)

\* s.includes(t)
Includes(s, t) == \E i \in 1..(Len(s) + 1) : OccursAt(s, t, i)

\* Template literals and string concatenation: the string of a text.
Str(s) ==
    LET cat[i \in 0..Len(s)] == IF i = 0 THEN "" ELSE cat[i - 1] \o s[i]
    IN  cat[Len(s)]

(***************************************************************************)
(* Source resolution of startScreenRtmpStream.                             *)
(***************************************************************************)
\* The name a source must contain to be the fallback: 'screen' in
\* ffmpegUtils.ts, 'Screen' in index.ts.
ScreenWord(m) ==
    IF m = "index" THEN <<"S", "c", "r", "e", "e", "n">>
    ELSE <<"s", "c", "r", "e", "e", "n">>

\* Sources desktopCapturer.getSources() resolves with: id and name.
SourceEntireScreen ==
    [id |-> <<"s", "c", "r", "e", "e", "n", ":", "0", ":", "0">>,
     name |-> <<"E", "n", "t", "i", "r", "e", " ", "s", "c", "r", "e", "e", "n">>]
SourceScreen1 ==
    [id |-> <<"s", "c", "r", "e", "e", "n", ":", "1", ":", "0">>,
     name |-> <<"S", "c", "r", "e", "e", "n", " ", "1">>]
SourceWindow ==
    [id |-> <<"w", "i", "n", "d", "o", "w", ":", "7", ":", "0">>,
     name |-> <<"T", "e", "r", "m", "i", "n", "a", "l">>]

\* The lists of sources getSources() may resolve with.
SourceLists ==
    {<<>>, <<SourceWindow>>, <<SourceWindow, SourceEntireScreen>>,
     <<SourceWindow, SourceScreen1>>}

\* The screenId arguments callers pass to startScreenRtmpStream.
ScreenIds ==
    {<<"s", "c", "r", "e", "e", "n", ":", "1", ":", "0">>,
     <<"w", "i", "n", "d", "o", "w", ":", "7", ":", "0">>,
     <<"2">>}

\* selectedSource when no source is found (JavaScript undefined).
NoSource == [id |-> <<>>, name |-> <<>>]

\*   let selectedSource = sources.find((source) => source.id === screenId)
\*   if (!selectedSource)
\*       selectedSource = sources.find((source) => source.name.includes(word))
SelectedSource(sources, screenId, word) ==
    LET byId == {i \in 1..Len(sources) : sources[i].id = screenId}
        byName == {i \in 1..Len(sources) : Includes(sources[i].name, word)}
    IN  IF byId # {} THEN sources[CHOOSE i \in byId : \A j \in byId : i <= j]
        ELSE IF byName # {}
             THEN sources[CHOOSE i \in byName : \A j \in byName : i <= j]
             ELSE NoSource

(***************************************************************************)
(* Start requests and the argument vector of the encoder.                  *)
(***************************************************************************)
\* JavaScript undefined, and what `if (x)` tests of a string or undefined.
\* (Str(Undefined) is 'undefined', as in a template literal.)
Undefined == <<"undefined">>
Truthy(x) == x # Undefined /\ x # <<>>

\* The audioDeviceId arguments callers pass: none, '', and two device ids.
AudioDeviceIds == {Undefined, <<>>, <<"2">>, <<"m", "i", "c">>}

\* The last element of a non-empty sequence.
Last(s) == s[Len(s)]

\* The character of s at position i, '' where s has none.
At(s, i) == IF i \in 1..Len(s) THEN s[i] ELSE ""

\* The longest run of characters of the class C that starts at position i
\* of s (empty when there is none): what a greedy C+ matches there.
Run(s, i, C) ==
    LET ends == {n \in i..(Len(s) + 1) : \A j \in i..(n - 1) : s[j] \in C}
    IN  IF i < 1 \/ ends = {} THEN <<>>
        ELSE SubSeq(s, i, (CHOOSE n \in ends : \A m \in ends : m <= n) - 1)

\* (\d+) at position i of s.
DigitRun(s, i) == Run(s, i, Digits)

\* The positions where a match of /screen:(\d+)/ begins in s.
ScreenColon == <<"s", "c", "r", "e", "e", "n", ":">>
ScreenMatches(s) ==
    {i \in 1..Len(s) : OccursAt(s, ScreenColon, i) /\ DigitRun(s, i + 7) # <<>>}

\* The least element of a non-empty set of integers: the leftmost match.
Least(S) == CHOOSE i \in S : \A j \in S : i <= j

\*   let screenNumericId = '1'
\*   if (/^\d+$/.test(screenId)) screenNumericId = screenId
\*   else { const match = screenId.match(/screen:(\d+)/)
\*          if (match && match[1]) screenNumericId = match[1] }
ScreenNumericId(screenId) ==
    IF screenId # <<>> /\ DigitRun(screenId, 1) = screenId THEN screenId
    ELSE IF ScreenMatches(screenId) # {}
         THEN DigitRun(screenId, Least(ScreenMatches(screenId)) + 7)
         ELSE <<"1">>

\*   let audioNumericId = '0'
\*   if (audioDeviceId && audioDeviceId.match(/\d+/))
\*       audioNumericId = audioDeviceId.match(/\d+/)?.[0] || '0'
AudioNumericId(audioDeviceId) ==
    LET at == {i \in 1..Len(audioDeviceId) : audioDeviceId[i] \in Digits}
    IN  IF at # {} THEN DigitRun(audioDeviceId, Least(at)) ELSE <<"0">>

(***************************************************************************)
(* The device listing of the encoder and the frame rates read from it.     *)
(* A frame rate is a number of hundredths of a frame per second (30.0 is   *)
(* 3000, 59.94 is 5994).                                                   *)
(***************************************************************************)
Whitespace == {" ", "\t", "\r"}

\* The greatest element of a non-empty set of integers.
Greatest(S) == CHOOSE i \in S : \A j \in S : j <= i

\* line.trim()
Trim(s) ==
    LET inner == {i \in 1..Len(s) : s[i] \notin Whitespace}
    IN  IF inner = {} THEN <<>> ELSE SubSeq(s, Least(inner), Greatest(inner))

\* The number a run of digits writes.
DigitValue(c) ==
    CASE c = "0" -> 0 [] c = "1" -> 1 [] c = "2" -> 2 [] c = "3" -> 3
      [] c = "4" -> 4 [] c = "5" -> 5 [] c = "6" -> 6 [] c = "7" -> 7
      [] c = "8" -> 8 [] c = "9" -> 9
DecimalValue(digits) ==
    LET value[i \in 0..Len(digits)] ==
            IF i = 0 THEN 0 ELSE 10 * value[i - 1] + DigitValue(digits[i])
    IN  value[Len(digits)]

\* parseFloat of `whole`.`fraction`, in hundredths (the digits of the
\* fraction after the second are dropped: the listings hold zeros there).
ParseFloat(whole, fraction) ==
    100 * DecimalValue(whole) + 10 * DigitValue(fraction[1])
        + (IF Len(fraction) >= 2 THEN DigitValue(fraction[2]) ELSE 0)

\* parseInt of a run of digits, in hundredths.
ParseInt(digits) == 100 * DecimalValue(digits)

\* line.match(/\[(\d+)\]\s+(.+)/) beginning at position i: '[', digits, ']',
\* white space, and the rest of the line (a trimmed line does not end with
\* white space, so the rest is not empty when the white space is there).
DeviceMatchAt(line, i) ==
    LET index == DigitRun(line, i + 1)
        close == i + 1 + Len(index)
        gap == Run(line, close + 1, Whitespace)
        from == close + 1 + Len(gap)
    IN  [ok |-> /\ At(line, i) = "[" /\ index # <<>> /\ At(line, close) = "]"
                /\ gap # <<>> /\ from <= Len(line),
         index |-> index,
         name |-> SubSeq(line, from, Len(line))]

\* The leftmost match of the device header in the line, if any.
DeviceMatch(line) ==
    LET at == {i \in 1..Len(line) : DeviceMatchAt(line, i).ok}
    IN  IF at = {} THEN [ok |-> FALSE, index |-> <<>>, name |-> <<>>]
        ELSE DeviceMatchAt(line, Least(at))

\* line.match(/(\d+x\d+)@\[(\d+\.\d+)\s+\d+\.\d+\]fps/) with its '@' at
\* position k: the frame rate is the first number in the brackets.
ModeMatchAt(line, k) ==
    LET whole == DigitRun(line, k + 2)
        dot == k + 2 + Len(whole)
        fraction == DigitRun(line, dot + 1)
        gap == Run(line, dot + 1 + Len(fraction), Whitespace)
        second == dot + 1 + Len(fraction) + Len(gap)
        whole2 == DigitRun(line, second)
        dot2 == second + Len(whole2)
        fraction2 == DigitRun(line, dot2 + 1)
    IN  [ok |-> /\ At(line, k) = "@"
                /\ \E x \in 2..(k - 2) :
                      /\ line[x] = "x" /\ line[x - 1] \in Digits
                      /\ \A j \in (x + 1)..(k - 1) : line[j] \in Digits
                /\ At(line, k + 1) = "["
                /\ whole # <<>> /\ At(line, dot) = "." /\ fraction # <<>>
                /\ gap # <<>>
                /\ whole2 # <<>> /\ At(line, dot2) = "." /\ fraction2 # <<>>
                /\ OccursAt(line, <<"]", "f", "p", "s">>,
                            dot2 + 1 + Len(fraction2)),
         whole |-> whole,
         fraction |-> fraction]

\* The leftmost match of the mode in the line, if any.
ModeMatch(line) ==
    LET at == {k \in 1..Len(line) : ModeMatchAt(line, k).ok}
    IN  IF at = {} THEN [ok |-> FALSE, whole |-> <<>>, fraction |-> <<>>]
        ELSE ModeMatchAt(line, Least(at))

\* line.match(/fps=(\d+)/): the digits of the leftmost match, <<>> if none.
FpsMatch(line) ==
    LET at == {i \in 1..Len(line) :
                  /\ OccursAt(line, <<"f", "p", "s", "=">>, i)
                  /\ DigitRun(line, i + 4) # <<>>}
    IN  IF at = {} THEN <<>> ELSE DigitRun(line, Least(at) + 4)

\* Lines of device listings.
\* '[in] [0] Cam': the header of device 0
LineCam ==
    <<"[", "i", "n", "]", " ", "[", "0", "]", " ", "C", "a", "m">>
\* ' [1] Capture screen 0\r': the header of device 1, not yet trimmed
LineScreen ==
    <<" ", "[", "1", "]", " ", "C", "a", "p", "t", "u", "r", "e", " ", "s",
      "c", "r", "e", "e", "n", " ", "0", "\r">>
\* '[in] 640x480@[30.000000 30.000000]fps': a mode of 30 frames per second
LineMode30 ==
    <<"[", "i", "n", "]", " ", "6", "4", "0", "x", "4", "8", "0", "@", "[",
      "3", "0", ".", "0", "0", "0", "0", "0", "0", " ", "3", "0", ".", "0",
      "0", "0", "0", "0", "0", "]", "f", "p", "s">>
\* '1280x720@[30.00 30.00]fps': another mode of 30 frames per second
LineMode30b ==
    <<"1", "2", "8", "0", "x", "7", "2", "0", "@", "[", "3", "0", ".", "0",
      "0", " ", "3", "0", ".", "0", "0", "]", "f", "p", "s">>
\* '[in] 640x480@[59.94 59.94]fps': a mode of 59.94 frames per second
LineMode5994 ==
    <<"[", "i", "n", "]", " ", "6", "4", "0", "x", "4", "8", "0", "@", "[",
      "5", "9", ".", "9", "4", " ", "5", "9", ".", "9", "4", "]", "f", "p",
      "s">>
\* '[in] 1280x720@[120.000000 120.000000]fps': a mode of 120 frames per second
LineMode120 ==
    <<"[", "i", "n", "]", " ", "1", "2", "8", "0", "x", "7", "2", "0", "@",
      "[", "1", "2", "0", ".", "0", "0", "0", "0", "0", "0", " ", "1", "2",
      "0", ".", "0", "0", "0", "0", "0", "0", "]", "f", "p", "s">>
\* '[in] AVFoundation video devices:': no header, no mode
LineTitle ==
    <<"[", "i", "n", "]", " ", "A", "V", "F", "o", "u", "n", "d", "a", "t",
      "i", "o", "n", " ", "v", "i", "d", "e", "o", " ", "d", "e", "v", "i",
      "c", "e", "s", ":">>
\* 'min s=640x480 fps=30': a mode line of the dshow listing
LineDshow ==
    <<"m", "i", "n", " ", "s", "=", "6", "4", "0", "x", "4", "8", "0", " ",
      "f", "p", "s", "=", "3", "0">>

ListingLines ==
    {LineCam, LineScreen, LineMode30, LineMode30b, LineMode5994, LineMode120,
     LineTitle, LineDshow}

\* What the regular expressions of the parser find in each of these lines,
\* once trimmed.
Matches ==
    [raw \in ListingLines |->
        [deviceMatch |-> DeviceMatch(Trim(raw)),
         modeMatch |-> ModeMatch(Trim(raw)),
         includesFps |-> Includes(Trim(raw), <<"f", "p", "s", "=">>),
         fpsMatch |-> FpsMatch(Trim(raw))]]

\* A Map<string, number[]> is the sequence of its entries, in insertion order.
\* deviceFramerates.get(key) || []
MapGet(map, key) ==
    LET at == {i \in 1..Len(map) : map[i].key = key}
    IN  IF at = {} THEN <<>> ELSE map[Least(at)].value

\* deviceFramerates.set(key, value): an existing key keeps its place.
MapSet(map, key, value) ==
    LET at == {i \in 1..Len(map) : map[i].key = key}
    IN  IF at = {} THEN Append(map, [key |-> key, value |-> value])
        ELSE [map EXCEPT ![Least(at)].value = value]

\* if (!framerates.includes(framerate)) { framerates.push(framerate); ... }
PushNew(map, key, framerate) ==
    LET framerates == MapGet(map, key)
    IN  IF \E i \in 1..Len(framerates) : framerates[i] = framerate THEN map
        ELSE MapSet(map, key, Append(framerates, framerate))

\* A slip in the loop: a mode is attached to every device found so far.
ParseLine_EveryDevice(st, found, p) ==
    LET deviceMatch == found.deviceMatch
        modeMatch == found.modeMatch
        attach[i \in 0..Len(st.deviceFramerates)] ==
            IF i = 0 THEN st.deviceFramerates
            ELSE PushNew(attach[i - 1], st.deviceFramerates[i].key,
                         ParseFloat(modeMatch.whole, modeMatch.fraction))
    IN  IF p = "darwin" /\ deviceMatch.ok
        THEN [currentDevice |-> deviceMatch.index \o <<":", " ">> \o deviceMatch.name,
              deviceFramerates |->
                  MapSet(st.deviceFramerates,
                         deviceMatch.index \o <<":", " ">> \o deviceMatch.name, <<>>)]
        ELSE IF p = "darwin" /\ modeMatch.ok
        THEN [st EXCEPT !.deviceFramerates = attach[Len(st.deviceFramerates)]]
        ELSE st

\* A slip in the win32 branch: the rate of an 'fps=' line is recorded though
\* no device has been seen.
ParseLine_NoCursorCheck(st, found, p) ==
    IF p = "win32" /\ found.includesFps /\ found.fpsMatch # <<>>
    THEN [st EXCEPT !.deviceFramerates =
             PushNew(@, st.currentDevice, ParseInt(found.fpsMatch))]
    ELSE st

\* One turn of the loop of parseAvailableFramerates, on platform p:
\* st holds currentDevice and deviceFramerates, and `found` what
\* line.match(...) and line.includes('fps=') give for line = lines[i].trim().
ParseLine(st, found, p) ==
    LET deviceMatch == found.deviceMatch
        modeMatch == found.modeMatch
        fpsMatch == found.fpsMatch
        device == deviceMatch.index \o <<":", " ">> \o deviceMatch.name
    IN  IF p = "darwin"
        THEN IF deviceMatch.ok
             THEN [currentDevice |-> device,
                   deviceFramerates |-> MapSet(st.deviceFramerates, device, <<>>)]
             ELSE IF modeMatch.ok /\ st.currentDevice # <<>>
             THEN [st EXCEPT !.deviceFramerates =
                      PushNew(@, st.currentDevice,
                              ParseFloat(modeMatch.whole, modeMatch.fraction))]
             ELSE st
        ELSE IF p = "win32"
        THEN IF /\ found.includesFps
                /\ fpsMatch # <<>>
                /\ st.currentDevice # <<>>
             THEN [st EXCEPT !.deviceFramerates =
                      PushNew(@, st.currentDevice, ParseInt(fpsMatch))]
             ELSE st
        ELSE st

\* parseAvailableFramerates(ffmpegOutput) on platform p; ffmpegOutput is
\* given as its lines, ffmpegOutput.split('\n').
parseAvailableFramerates(lines, p) ==
    LET st[i \in 0..Len(lines)] ==
            IF i = 0 THEN [currentDevice |-> <<>>, deviceFramerates |-> <<>>]
            ELSE ParseLine(st[i - 1], Matches[lines[i]], p)
    IN  st[Len(lines)].deviceFramerates

MaxLines == 4      \* lines of a device listing

\* The device listings: every sequence of at most MaxLines lines.
Listings == UNION {[1..n -> ListingLines] : n \in 0..MaxLines}

\* getDeviceFramerates when the listing has resolved with `lines`.
getDeviceFramerates(lines, p) == parseAvailableFramerates(lines, p)

\* The device ids callers pass to getBestFramerate: '0', '1', 'screen:1:0'
\* and '9'.
DeviceIds ==
    {<<"0">>, <<"1">>, <<"s", "c", "r", "e", "e", "n", ":", "1", ":", "0">>, <<"9">>}

\*   let ffmpegDeviceId = deviceId
\*   if (process.platform === 'darwin' && deviceId.startsWith('screen:'))
\*       ffmpegDeviceId = deviceId.match(/screen:(\d+):/)?.[1] || '1'
FfmpegDeviceId(deviceId, p) ==
    LET at == {i \in 1..Len(deviceId) :
                  /\ OccursAt(deviceId, ScreenColon, i)
                  /\ DigitRun(deviceId, i + 7) # <<>>
                  /\ At(deviceId, i + 7 + Len(DigitRun(deviceId, i + 7))) = ":"}
    IN  IF p = "darwin" /\ StartsWith(deviceId, ScreenColon)
        THEN IF at = {} THEN <<"1">> ELSE DigitRun(deviceId, Least(at) + 7)
        ELSE deviceId

\* [...framerates].sort((a, b) => b - a)[0] of a non-empty list.
Highest(framerates) ==
    Greatest({framerates[i] : i \in 1..Len(framerates)})

\* getBestFramerate(deviceId) on platform p, when getDeviceFramerates has
\* returned deviceFramerates: the highest rate of the first entry that
\* matches and has rates, else 60 on darwin and 30 elsewhere.
getBestFramerate(deviceId, deviceFramerates, p) ==
    LET ffmpegDeviceId == FfmpegDeviceId(deviceId, p)
        hits == {i \in 1..Len(deviceFramerates) :
                    /\ \/ StartsWith(deviceFramerates[i].key, ffmpegDeviceId \o <<":">>)
                       \/ Includes(deviceFramerates[i].key, ffmpegDeviceId)
                    /\ Len(deviceFramerates[i].value) > 0}
    IN  IF hits # {} THEN Highest(deviceFramerates[Least(hits)].value)
        ELSE IF p = "darwin" THEN 6000
        ELSE IF p = "win32" THEN 3000
        ELSE 3000

\* startRtmpStream: `args` as first built, on platform p (module m: index.ts
\* asks for 60 frames per second, cameraRtmp.ts for 30).
CameraInputArgs(m, p) ==
    LET inputFormat == IF p = "darwin" THEN "avfoundation"
                       ELSE IF p = "linux" THEN "v4l2" ELSE "dshow"
        videoInput == IF p = "darwin" THEN "0" ELSE "video=Webcam"
        framerate == IF m = "index" THEN "60" ELSE "30"
    IN  <<"-f", inputFormat, "-framerate", framerate,
          "-video_size", "1280x720", "-i", videoInput>>

\* startRtmpStream: what `if (audioDeviceId) { ... }` pushes.
CameraAudioArgs(p, q) ==
    LET inputFormat == IF p = "darwin" THEN "avfoundation"
                       ELSE IF p = "linux" THEN "v4l2" ELSE "dshow"
    IN  IF ~Truthy(q.audioDeviceId) THEN <<>>
        ELSE IF p = "darwin"
             THEN <<"-f", inputFormat, "-i", ":0", "-c:a", "aac", "-b:a", "128k">>
        ELSE IF p = "win32"
             THEN <<"-f", inputFormat, "-i", "audio=Microphone",
                    "-c:a", "aac", "-b:a", "128k">>
        ELSE <<"-f", "alsa", "-i", "default", "-c:a", "aac", "-b:a", "128k">>

\* startRtmpStream: the output settings, the sink address last.
CameraOutputArgs(q) ==
    <<"-c:v", "libx264", "-preset", "veryfast", "-b:v", "2500k",
      "-bufsize", "5000k", "-f", "flv", Str(q.rtmpUrl)>>

\* A slip in startRtmpStream: the audio input is added only while the status
\* record holds no error.
CameraArgs_FromStatus(m, p, q) ==
    CameraInputArgs(m, p)
        \o (IF streamStatus.error = "" THEN CameraAudioArgs(p, q) ELSE <<>>)
        \o CameraOutputArgs(q)

\* The argument vector startRtmpStream passes to spawn() for request q.
CameraArgs(m, p, q) ==
    CameraInputArgs(m, p) \o CameraAudioArgs(p, q) \o CameraOutputArgs(q)

\* startScreenRtmpStream: inputArgs up to the video input, on platform p.
ScreenInputArgs(p, q) ==
    LET framerate == "30"
    IN  IF p = "win32"
        THEN <<"-f", "gdigrab", "-framerate", framerate, "-i", "desktop">>
        ELSE IF p = "darwin"
        THEN <<"-f", "avfoundation", "-capture_cursor", "1",
               "-capture_mouse_clicks", "1", "-framerate", "60",
               "-pix_fmt", "uyvy422",
               "-i", Str(ScreenNumericId(q.screenId)) \o ":none">>
        ELSE <<"-f", "x11grab", "-framerate", framerate,
               "-video_size", "1920x1080", "-i", ":0.0">>

\* startScreenRtmpStream: what `if (audioDeviceId) { ... }` pushes to inputArgs.
ScreenAudioArgs(p, q) ==
    IF ~Truthy(q.audioDeviceId) THEN <<>>
    ELSE IF p = "darwin"
         THEN <<"-f", "avfoundation",
                "-i", ":" \o Str(AudioNumericId(q.audioDeviceId)),
                "-c:a", "aac", "-b:a", "128k">>
    ELSE IF p = "win32"
         THEN <<"-f", "dshow", "-i", "audio=Microphone",
                "-c:a", "aac", "-b:a", "128k">>
    ELSE <<"-f", "alsa", "-i", "default", "-c:a", "aac", "-b:a", "128k">>

\* startScreenRtmpStream: outputArgs, the sink address last.
ScreenOutputArgs(q) ==
    <<"-c:v", "libx264", "-preset", "medium", "-tune", "zerolatency",
      "-b:v", "6000k", "-maxrate", "8000k", "-bufsize", "12000k",
      "-profile:v", "high", "-level:v", "4.2", "-crf", "18", "-g", "60",
      "-bf", "0", "-pix_fmt", "yuv420p", "-c:a", "aac", "-b:a", "192k",
      "-ar", "48000", "-f", "flv", Str(q.rtmpUrl)>>

\* A slip in startScreenRtmpStream: the audio input is pushed after the
\* output settings.
ScreenArgs_AudioLast(p, q) ==
    ScreenInputArgs(p, q) \o ScreenOutputArgs(q) \o ScreenAudioArgs(p, q)

\* The argument vector startScreenRtmpStream passes to spawn() for request q:
\*   const allArgs = [...inputArgs, ...outputArgs]
ScreenArgs(p, q) ==
    ScreenInputArgs(p, q) \o ScreenAudioArgs(p, q) \o ScreenOutputArgs(q)

\* What a caller passes to startRtmpStream(videoDeviceId, audioDeviceId, rtmpUrl).
CameraRequest(videoDeviceId, audioDeviceId, rtmpUrl) ==
    [videoDeviceId |-> videoDeviceId, audioDeviceId |-> audioDeviceId,
     rtmpUrl |-> rtmpUrl]

\* What a caller passes to
\* startScreenRtmpStream(sourceId, audioDeviceId, rtmpUrl, screenId).
ScreenRequest(sourceId, audioDeviceId, rtmpUrl, screenId) ==
    [sourceId |-> sourceId, audioDeviceId |-> audioDeviceId,
     rtmpUrl |-> rtmpUrl, screenId |-> screenId]

\* The requests of the sessions: one camera, one screen, no audio.
CameraRequests ==
    {CameraRequest(<<"c", "a", "m">>, Undefined, url) : url \in RtmpUrls}
ScreenRequests ==
    {ScreenRequest(SourceScreen1.id, Undefined, url, SourceScreen1.id) :
        url \in RtmpUrls}

\* streamStatus = { isStreaming: true, streamUrl: rtmpUrl, startTime: Date.now(), error: '' }
StreamingStatus(rtmpUrl, now) ==
    [isStreaming |-> TRUE, streamUrl |-> rtmpUrl, startTime |-> now, error |-> ""]

\* A slip in the start of one stream: its check reads the other stream's handle.
AlreadyRunning_OtherHandle(k) ==
    (IF k = "camera" THEN ffmpegProcess2 ELSE ffmpegProcess) # NoProcess

\* if (ffmpegProcess) / if (ffmpegProcess2): the already-running check of start.
AlreadyRunning(k) == Handle(k) # NoProcess

\* A slip in the stop of one stream: its check reads the other stream's handle.
NoActiveStream_OtherHandle(k) ==
    (IF k = "camera" THEN ffmpegProcess2 ELSE ffmpegProcess) = NoProcess

\* if (!ffmpegProcess) / if (!ffmpegProcess2): the no-active-stream check of stop.
NoActiveStream(k) == Handle(k) = NoProcess

\* A slip in the catch block: it also marks the stream as not streaming.
FailedStatus_NotStreaming(status, message) ==
    [status EXCEPT !.error = message, !.isStreaming = FALSE]

\* catch (error) of start: streamStatus.error = error.message, in place.
FailedStatus(status, message) == [status EXCEPT !.error = message]

\* A slip in the not-found return: the failure is written to the status record
\* as the catch block would write it.
NotFoundStatus_Recorded(status) == FailedStatus(status, "Screen source not found")

\* if (!selectedSource) return { success: false, message: ... }: the status
\* record after the not-found return, which writes nothing.
NotFoundStatus(status) == status

\* The status a stop assigns: a fresh record with the initial values.
StoppedStatus ==
    [isStreaming |-> FALSE, streamUrl |-> "", startTime |-> 0, error |-> ""]

\* A slip in the 'close' handler: the error text is never written.
ClosedStatus_NoError(status, code) == [status EXCEPT !.isStreaming = FALSE]

\* The 'close' handler's writes to the status record, in place:
\*   streamStatus.isStreaming = false
\*   streamStatus.error = code !== 0 ? `FFmpeg exited with code ${code}` : ''
ClosedStatus(status, code) ==
    [status EXCEPT !.isStreaming = FALSE,
                   !.error = IF code # 0 THEN ExitMessage(code) ELSE ""]

\* A slip in the 'close' handler: the handle is not nulled.
HandleAfterClose_Stale(h, own) == h

\* The 'close' handler's write to the handle: ffmpegProcess = null, whatever
\* the handle `h` refers to when a process closes (`own`: the process that
\* closes is the one the handle refers to).
HandleAfterClose(h, own) == NoProcess

\* ffmpegProcess.kill('SIGTERM') on ChildProcess r: a running process is
\* signalled; for one that has already ended kill() returns false, no more.
Killed(r) == IF r.st = "running" THEN [r EXCEPT !.termed = TRUE] ELSE r

\* The operating system ends process r with exit code `code`.
Exited(r, code) == [r EXCEPT !.st = "exited", !.code = code, !.termTimeout = FALSE]

\* The exit codes process r may end with.
ExitCodes(r) == IF r.termed THEN TermExitCodes ELSE OwnExitCodes

\* The value of the status getters: getCameraRtmpStatus, getScreenRtmpStatus
\* and the 'get-rtmp-status' handler all return streamStatus.
getRtmpStatus == streamStatus

\* streamStatus.isStreaming = ...; streamStatus.error = ...: the object
\* streamStatus refers to is written in place, and who holds it sees `status`.
Mutate(status) ==
    /\ streamStatus' = status
    /\ held' = IF held.live THEN [held EXCEPT !.value = status] ELSE held

\* streamStatus = {...}: the variable refers to a new object, and who holds
\* the old one keeps it as it is.
Replace(status) ==
    /\ streamStatus' = status
    /\ held' = [held EXCEPT !.live = FALSE]

\* The handle of kind k becomes v (the other handle stays).
AssignHandle(k, v) ==
    IF k = "camera"
    THEN ffmpegProcess' = v /\ UNCHANGED ffmpegProcess2
    ELSE ffmpegProcess2' = v /\ UNCHANGED ffmpegProcess

\* The bag b and the ChildProcess r, which loses its last reference.
Detach(b, r) == IF r.st \in {"running", "exited"} THEN BagAdd(b, r) ELSE b

\* From spawn() to the return of startRtmpStream / startScreenRtmpStream:
\*   ffmpegProcess = spawn(ffmpegStatic ?? '', args, ...); the listeners;
\*   streamStatus = {...}; return { success: true, ... }
\* and the catch block when spawn() throws.
SpawnAndReturn(k, q, args) ==
    IF ~ffmpegStatic
    THEN /\ Mutate(FailedStatus(streamStatus, SpawnErrorMessage))
         /\ lastEvent' = StartEvent(k, "Error")
         /\ UNCHANGED <<ffmpegProcess, ffmpegProcess2, detached, okInRow, spawned, planned>>
    ELSE /\ ProcessCount < MaxProcs
         /\ spawned' = [kind |-> k, request |-> q, args |-> args]
         /\ planned' = IF q # watched THEN planned
                        ELSE IF planned = NoPlan THEN [args |-> args, again |-> FALSE]
                        ELSE [planned EXCEPT !.again = TRUE]
         /\ \E now \in Timestamps :
                Replace(StreamingStatus(Str(q.rtmpUrl), now))
         /\ AssignHandle(k, NewProcess(k))
         /\ detached' = Detach(detached, Handle(k))
         /\ lastEvent' = StartEvent(k, "Ok")
         /\ okInRow' = [okInRow EXCEPT ![k] = @ + 1]

\* startRtmpStream, called with one of `requests`: no await between its
\* check and its return.
StartRtmpStream(requests) ==
    /\ module \in {"cameraRtmp", "index"}
    /\ \E q \in requests :
         IF AlreadyRunning("camera")
         THEN /\ lastEvent' = StartEvent("camera", "AlreadyRunning")
              /\ UNCHANGED <<ffmpegProcess, ffmpegProcess2, streamStatus, held, detached,
                             okInRow, spawned, planned>>
         ELSE SpawnAndReturn("camera", q, CameraArgs(module, platform, q))
    /\ UNCHANGED <<module, ffmpegStatic, calls>>
    /\ UNCHANGED otherVars

startRtmpStream == StartRtmpStream(CameraRequests)

\* startScreenRtmpStream, called with one of `requests`, up to
\* `await desktopCapturer.getSources(...)`.
StartScreenRtmpStream_begin(requests) ==
    /\ module \in {"ffmpegUtils", "index"}
    /\ IF AlreadyRunning("screen")
       THEN /\ lastEvent' = StartEvent("screen", "AlreadyRunning")
            /\ UNCHANGED calls
       ELSE /\ BagCardinality(calls) < MaxCalls
            /\ \E q \in requests :
                  calls' = BagAdd(calls, [kind |-> "screen", pc |-> "getSources",
                                          request |-> q])
            /\ lastEvent' = StartEvent("screen", "Pending")
    /\ UNCHANGED <<module, ffmpegStatic, ffmpegProcess, ffmpegProcess2,
                   streamStatus, held, detached, okInRow, spawned, planned>>
    /\ UNCHANGED otherVars

startScreenRtmpStream_begin == StartScreenRtmpStream_begin(ScreenRequests)

\* startScreenRtmpStream from the settling of getSources() to its return.
startScreenRtmpStream_resume ==
    /\ \E c \in BagToSet(calls) :
        /\ c.pc = "getSources"
        /\ calls' = BagRemove(calls, c)
        /\ \/ \* getSources() rejects: the catch block records the error
              /\ Mutate(FailedStatus(streamStatus, SourcesErrorMessage))
              /\ lastEvent' = StartEvent("screen", "Error")
              /\ UNCHANGED <<ffmpegProcess, ffmpegProcess2, detached, okInRow,
                             spawned, planned>>
           \/ \* getSources() resolves with a list of sources
              \E sources \in SourceLists :
                IF SelectedSource(sources, c.request.screenId, ScreenWord(module))
                      = NoSource
                THEN /\ Mutate(NotFoundStatus(streamStatus))
                     /\ lastEvent' = StartEvent("screen", "NotFound")
                     /\ UNCHANGED <<ffmpegProcess, ffmpegProcess2, detached,
                                    okInRow, spawned, planned>>
                ELSE SpawnAndReturn("screen", c.request,
                                    ScreenArgs(platform, c.request))
    /\ UNCHANGED <<module, ffmpegStatic>>
    /\ UNCHANGED otherVars

\* stopRtmpStream (k = "camera") and stopRtmpScreenStream (k = "screen").
Stop(k) ==
    /\ k \in KindsOf(module)
    /\ IF NoActiveStream(k)
       THEN /\ lastEvent' = Event("stop", k, "NoActive", 0, FALSE, FALSE, FALSE)
            /\ UNCHANGED <<ffmpegProcess, ffmpegProcess2, streamStatus, held, detached>>
       ELSE /\ AssignHandle(k, NoProcess)
            /\ detached' = Detach(detached, Killed(Handle(k)))
            /\ Replace(StoppedStatus)
            /\ lastEvent' = Event("stop", k, "Ok", 0, FALSE, TRUE, FALSE)
    /\ okInRow' = [okInRow EXCEPT ![k] = 0]
    /\ UNCHANGED <<module, ffmpegStatic, calls, spawned, planned>>
    /\ UNCHANGED otherVars

stopRtmpStream == Stop("camera")

stopRtmpScreenStream == Stop("screen")

\* The operating system ends an encoder process, by itself or after SIGTERM.
ProcessExits ==
    /\ \/ \E k \in Kinds : \E code \in ExitCodes(Handle(k)) :
            /\ Handle(k).st = "running"
            /\ AssignHandle(k, Exited(Handle(k), code))
            /\ lastEvent' = Event("exit", k, "", code, Handle(k).termed, TRUE, FALSE)
            /\ okInRow' = [okInRow EXCEPT ![k] = 0]
            /\ UNCHANGED detached
       \/ \E r \in BagToSet(detached) : \E code \in ExitCodes(r) :
            /\ r.st = "running"
            /\ detached' = BagAdd(BagRemove(detached, r), Exited(r, code))
            /\ lastEvent' = Event("exit", r.kind, "", code, r.termed, FALSE, FALSE)
            /\ okInRow' = [okInRow EXCEPT ![r.kind] = 0]
            /\ UNCHANGED <<ffmpegProcess, ffmpegProcess2>>
    /\ UNCHANGED <<module, ffmpegStatic, streamStatus, held, calls, spawned, planned>>
    /\ UNCHANGED otherVars

\* ffmpegProcess.on('close', (code) => { ... }), the listener each start
\* registers on the process it spawned.
OnClose ==
    /\ \/ \E k \in Kinds :
            /\ Handle(k).st = "exited"
            /\ AssignHandle(k, HandleAfterClose([Handle(k) EXCEPT !.st = "closed"], TRUE))
            /\ Mutate(ClosedStatus(streamStatus, Handle(k).code))
            /\ lastEvent' = CloseEvent(Handle(k), TRUE)
            /\ okInRow' = [okInRow EXCEPT ![k] = 0]
            /\ UNCHANGED detached
       \/ \E r \in BagToSet(detached) :
            /\ r.st = "exited"
            /\ AssignHandle(r.kind, HandleAfterClose(Handle(r.kind), FALSE))
            /\ detached' =
                 IF HandleAfterClose(Handle(r.kind), FALSE) = Handle(r.kind)
                 THEN BagRemove(detached, r)
                 ELSE Detach(BagRemove(detached, r), Handle(r.kind))
            /\ Mutate(ClosedStatus(streamStatus, r.code))
            /\ lastEvent' = CloseEvent(r, FALSE)
            /\ okInRow' = [okInRow EXCEPT ![r.kind] = 0]
    /\ UNCHANGED <<module, ffmpegStatic, calls, spawned, planned>>
    /\ UNCHANGED otherVars

Next ==
    \/ startRtmpStream
    \/ startScreenRtmpStream_begin
    \/ startScreenRtmpStream_resume
    \/ stopRtmpStream
    \/ stopRtmpScreenStream
    \/ ProcessExits
    \/ OnClose

Spec == Init /\ [][Next]_vars

\* Time: the grace window after a spawn passes while the process still runs.
GraceWindowPasses ==
    /\ \/ \E k \in Kinds :
            /\ Handle(k).st = "running" /\ ~Handle(k).graceOver
            /\ AssignHandle(k, [Handle(k) EXCEPT !.graceOver = TRUE])
            /\ UNCHANGED detached
       \/ \E r \in BagToSet(detached) :
            /\ r.st = "running" /\ ~r.graceOver
            /\ detached' = BagAdd(BagRemove(detached, r), [r EXCEPT !.graceOver = TRUE])
            /\ UNCHANGED <<ffmpegProcess, ffmpegProcess2>>
    /\ lastEvent' = TimeEvent
    /\ UNCHANGED <<module, ffmpegStatic, streamStatus, held, calls, okInRow, spawned,
                   planned>>
    /\ UNCHANGED otherVars

\* Time: the stop timeout after a SIGTERM passes while the process still runs.
\* (stop nulls the handle with the signal, so such a process is detached.)
StopTimeoutPasses ==
    /\ \E r \in BagToSet(detached) :
            /\ r.st = "running" /\ r.termed /\ ~r.termTimeout
            /\ detached' = BagAdd(BagRemove(detached, r), [r EXCEPT !.termTimeout = TRUE])
    /\ lastEvent' = TimeEvent
    /\ UNCHANGED <<module, ffmpegStatic, ffmpegProcess, ffmpegProcess2,
                   streamStatus, held, calls, okInRow, spawned, planned>>
    /\ UNCHANGED otherVars

\* The 'error' event of a ChildProcess whose file could not be executed
\* (ENOENT, EACCES).  No start registers an 'error' listener on the encoder
\* process, so emit('error') throws in the main process; the 'exit' and
\* 'close' events, which Node emits after a handled 'error', never come.
OnSpawnError ==
    /\ \E k \in Kinds :
          /\ Handle(k).st = "spawnError"
          /\ AssignHandle(k, [Handle(k) EXCEPT !.st = "failed"])
          /\ lastEvent' = Event("error", k, "", 0, FALSE, TRUE, FALSE)
          /\ okInRow' = [okInRow EXCEPT ![k] = 0]
    /\ uncaught' = TRUE
    /\ UNCHANGED <<module, ffmpegStatic, streamStatus, held, detached, calls, spawned,
                   planned, envVars, applied, probeVars>>

NextSpawnError == Next \/ OnSpawnError

\* The encoder binary may be missing or not executable.
InitSpawnError ==
    /\ InitSessions
    /\ watched = NoRequest
    /\ platform = "darwin"
    /\ binaryRuns \in BOOLEAN
    /\ uncaught = FALSE
    /\ applied = NoApplication
    /\ listings = EmptyBag
    /\ probed = NoProbe

\* The sessions with an encoder binary that may fail to execute.
SpecSpawnError == InitSpawnError /\ [][NextSpawnError]_vars

(***************************************************************************)
(* The sessions with every kind of request, on every platform.             *)
(***************************************************************************)
PlanProcs == 1     \* encoder subprocesses that exist at the same time
PlanCalls == 1     \* start requests suspended at an await at the same time

\* Sink addresses that are no RTMP addresses: '' and 'http://h/k'.
OtherUrls == {<<>>, <<"h", "t", "t", "p", ":", "/", "/", "h", "/", "k">>}

\* Requests of every kind: with and without audio, with a screenId of either
\* form, with a sink address that is an RTMP address or not.
AnyCameraRequests ==
    {CameraRequest(<<"c", "a", "m">>, Undefined, url) : url \in RtmpUrls \cup OtherUrls}
    \cup {CameraRequest(<<"c", "a", "m">>, <<"2">>, url) : url \in RtmpUrls}
AnyScreenRequests ==
    {ScreenRequest(SourceScreen1.id, Undefined, url, SourceScreen1.id) :
        url \in RtmpUrls \cup OtherUrls}
    \cup {ScreenRequest(SourceScreen1.id, <<"2">>, url, <<"2">>) : url \in RtmpUrls}

startRtmpStream_request ==
    StartRtmpStream(AnyCameraRequests) /\ ProcessCount' <= PlanProcs

startScreenRtmpStream_begin_request ==
    StartScreenRtmpStream_begin(AnyScreenRequests)
        /\ BagCardinality(calls') <= PlanCalls

startScreenRtmpStream_resume_request ==
    startScreenRtmpStream_resume /\ ProcessCount' <= PlanProcs

NextRequests ==
    \/ startRtmpStream_request
    \/ startScreenRtmpStream_begin_request
    \/ startScreenRtmpStream_resume_request
    \/ stopRtmpStream
    \/ stopRtmpScreenStream
    \/ ProcessExits
    \/ OnClose

InitRequests ==
    /\ InitSessions
    /\ watched \in AnyCameraRequests \cup AnyScreenRequests
    /\ platform \in Platforms
    /\ binaryRuns = TRUE
    /\ uncaught = FALSE
    /\ applied = NoApplication
    /\ listings = EmptyBag
    /\ probed = NoProbe

SpecRequests == InitRequests /\ [][NextRequests]_vars

(***************************************************************************)
(* The functions that read no module state, called with every kind of      *)
(* argument on every platform: a behaviour is one call.                    *)
(***************************************************************************)
\* Sink addresses: 'rtmp://h/k', 'rtmps://h/k', '' and 'http://h/k'.
SinkUrls ==
    RtmpUrls \cup OtherUrls
        \cup {<<"r", "t", "m", "p", "s", ":", "/", "/", "h", "/", "k">>}

\* The planning of startRtmpStream: from its arguments to the argument vector.
Plan_startRtmpStream ==
    /\ applied = NoApplication
    /\ module \in {"cameraRtmp", "index"}
    /\ \E a \in AudioDeviceIds : \E url \in SinkUrls :
         LET q == CameraRequest(<<"c", "a", "m">>, a, url)
         IN  applied' = [fn |-> "startRtmpStream", arg |-> q,
                         out |-> CameraArgs(module, platform, q)]
    /\ UNCHANGED <<sessionVars, envVars, uncaught, probeVars>>

\* The planning of startScreenRtmpStream, once a source is selected.
Plan_startScreenRtmpStream ==
    /\ applied = NoApplication
    /\ module \in {"ffmpegUtils", "index"}
    /\ \E id \in ScreenIds : \E a \in AudioDeviceIds : \E url \in SinkUrls :
         LET q == ScreenRequest(id, a, url, id)
         IN  applied' = [fn |-> "startScreenRtmpStream", arg |-> q,
                         out |-> ScreenArgs(platform, q)]
    /\ UNCHANGED <<sessionVars, envVars, uncaught, probeVars>>

\* The screen ids a renderer may pass besides ScreenIds: '', '12',
\* 'screen:2', 'screen:x', 'my screen:34' and 'display 5'.
OtherScreenIds ==
    {<<>>, <<"1", "2">>,
         <<"s", "c", "r", "e", "e", "n", ":", "2">>,
         <<"s", "c", "r", "e", "e", "n", ":", "x">>,
         <<"m", "y", " ", "s", "c", "r", "e", "e", "n", ":", "3", "4">>,
         <<"d", "i", "s", "p", "l", "a", "y", " ", "5">>}

\* The darwin branch of startScreenRtmpStream for a request that finds its
\* source: the capture index it resolves screenId to, and what the call
\* returns: { success: true, message: 'Screen stream started successfully' }.
Resolve_screenNumericId ==
    /\ applied = NoApplication
    /\ module \in {"index", "ffmpegUtils"}
    /\ platform = "darwin"
    /\ \E screenId \in ScreenIds \cup OtherScreenIds :
         applied' = [fn |-> "screenNumericId", arg |-> screenId,
                     out |-> [screenNumericId |-> ScreenNumericId(screenId),
                              returned |->
                                  [success |-> TRUE,
                                   message |-> "Screen stream started successfully"]]]
    /\ UNCHANGED <<sessionVars, envVars, uncaught, probeVars>>

\* The two resolutions ffmpegUtils.ts makes of one screen id on darwin:
\* screenNumericId of startScreenRtmpStream, ffmpegDeviceId of getBestFramerate.
Resolve_both ==
    /\ applied = NoApplication
    /\ module = "ffmpegUtils"
    /\ platform = "darwin"
    /\ \E screenId \in ScreenIds \cup OtherScreenIds :
         applied' = [fn |-> "resolvers", arg |-> screenId,
                     out |-> [screenNumericId |-> ScreenNumericId(screenId),
                              ffmpegDeviceId |-> FfmpegDeviceId(screenId, platform)]]
    /\ UNCHANGED <<sessionVars, envVars, uncaught, probeVars>>

\* parseAvailableFramerates, which ffmpegUtils.ts keeps to itself.
Apply_parseAvailableFramerates ==
    /\ applied = NoApplication
    /\ module = "ffmpegUtils"
    /\ \E lines \in Listings :
         applied' = [fn |-> "parseAvailableFramerates", arg |-> lines,
                     out |-> parseAvailableFramerates(lines, platform)]
    /\ UNCHANGED <<sessionVars, envVars, uncaught, probeVars>>

\* getBestFramerate, when the listing it asks for resolves with `lines`.
Apply_getBestFramerate ==
    /\ applied = NoApplication
    /\ module = "ffmpegUtils"
    /\ \E deviceId \in DeviceIds : \E lines \in Listings :
         applied' = [fn |-> "getBestFramerate",
                     arg |-> [deviceId |-> deviceId, lines |-> lines],
                     out |-> getBestFramerate(deviceId,
                                              getDeviceFramerates(lines, platform),
                                              platform)]
    /\ UNCHANGED <<sessionVars, envVars, uncaught, probeVars>>

NextFunctions ==
    \/ Plan_startRtmpStream
    \/ Plan_startScreenRtmpStream
    \/ Apply_parseAvailableFramerates
    \/ Apply_getBestFramerate
    \/ Resolve_screenNumericId
    \/ Resolve_both

InitFunctions ==
    /\ InitSessions
    /\ ffmpegStatic = TRUE
    /\ watched = NoRequest
    /\ platform \in Platforms
    /\ binaryRuns = TRUE
    /\ uncaught = FALSE
    /\ applied = NoApplication
    /\ listings = EmptyBag
    /\ probed = NoProbe

SpecFunctions == InitFunctions /\ [][NextFunctions]_vars

\* ---- The camera start behind the 'start-rtmp-stream' handler of index.ts ----

\* startRtmpStream(options...) as the handler calls it once its listing has
\* settled: from the already-running check to the return, no await.
StartAfterListing(q) ==
    IF AlreadyRunning("camera")
    THEN /\ lastEvent' = StartEvent("camera", "AlreadyRunning")
         /\ UNCHANGED <<ffmpegProcess, ffmpegProcess2, streamStatus, held, detached,
                        okInRow, spawned, planned>>
    ELSE SpawnAndReturn("camera", q, CameraArgs(module, platform, q))

\* ipcMain.handle('start-rtmp-stream', ...) up to `await listAvailableDevices()`.
\* With ffmpegStatic null the listing's spawn('') throws, the promise is
\* rejected at once and the handler goes on in the same turn.
startRtmpStreamHandler_begin ==
    /\ module = "index"
    /\ \E q \in CameraRequests :
          IF ~ffmpegStatic
          THEN /\ StartAfterListing(q)
               /\ UNCHANGED calls
          ELSE /\ BagCardinality(calls) < MaxCalls
               /\ calls' = BagAdd(calls, [kind |-> "camera",
                                          pc |-> "listAvailableDevices",
                                          request |-> q])
               /\ lastEvent' = StartEvent("camera", "Pending")
               /\ UNCHANGED <<ffmpegProcess, ffmpegProcess2, streamStatus, held,
                              detached, okInRow, spawned, planned>>
    /\ UNCHANGED <<module, ffmpegStatic>>
    /\ UNCHANGED otherVars

\* The handler from the settling of the listing (resolved on 'close' or
\* rejected on 'error' and caught) to its return.
startRtmpStreamHandler_resume ==
    /\ \E c \in BagToSet(calls) :
          /\ c.pc = "listAvailableDevices"
          /\ calls' = BagRemove(calls, c)
          /\ StartAfterListing(c.request)
    /\ UNCHANGED <<module, ffmpegStatic>>
    /\ UNCHANGED otherVars

NextHandlers ==
    \/ startRtmpStreamHandler_begin
    \/ startRtmpStreamHandler_resume
    \/ startScreenRtmpStream_begin
    \/ startScreenRtmpStream_resume
    \/ stopRtmpStream
    \/ stopRtmpScreenStream
    \/ ProcessExits
    \/ OnClose

InitHandlers == Init /\ module = "index"

\* The main process of index.ts, its streams started through IPC.
SpecHandlers == InitHandlers /\ [][NextHandlers]_vars

\* ---- A caller that reads the status and keeps what it got ----

\* getCameraRtmpStatus / getScreenRtmpStatus: `return streamStatus`, the
\* object itself; the 'get-rtmp-status' handler of index.ts returns it over
\* IPC, where the renderer gets a copy.  One read is followed.
getStatus ==
    /\ ~held.taken
    /\ held' = [taken |-> TRUE, live |-> module # "index",
                read |-> getRtmpStatus, value |-> getRtmpStatus]
    /\ lastEvent' = Event("status", "camera", "", 0, FALSE, FALSE, FALSE)
    /\ UNCHANGED <<module, ffmpegStatic, ffmpegProcess, ffmpegProcess2, streamStatus,
                   detached, calls, okInRow, spawned, planned>>
    /\ UNCHANGED otherVars

NextSnapshot == NextRequests \/ getStatus

InitSnapshot == Init

\* The sessions of SpecRequests with a caller that reads the status once.
SpecSnapshot == InitSnapshot /\ [][NextSnapshot]_vars

\* ---- The device probe: listAvailableDevices and its callers ----

MaxProbes == 2

\* What the listing subprocess may write before it closes: nothing, a title
\* without any device, a device with a mode.
ProbeListings == {<<>>, <<LineTitle>>, <<LineCam, LineMode30>>}

\* The callers of listAvailableDevices: the 'list-ffmpeg-devices' handler, and
\* getBestFramerate(deviceId) through getDeviceFramerates.
Probers ==
    {[caller |-> "list-ffmpeg-devices", deviceId |-> <<>>]} \cup
    {[caller |-> "getBestFramerate", deviceId |-> d] : d \in {<<"0">>, <<"9">>}}

\* What the caller returns once the promise of listAvailableDevices settles.
\*   'list-ffmpeg-devices': { success: true, devices } or, from the catch,
\*                          { success: false, error }
\*   getBestFramerate: getDeviceFramerates returns the parsed table or, from
\*                     its catch, new Map(); the frame rate is chosen from it
ProberResult(c, rejected, lines) ==
    IF c.caller = "list-ffmpeg-devices"
    THEN IF rejected
         THEN [success |-> FALSE, devices |-> <<>>, error |-> "Failed to list devices"]
         ELSE [success |-> TRUE, devices |-> lines, error |-> ""]
    ELSE LET deviceFramerates ==
                 IF rejected THEN <<>> ELSE getDeviceFramerates(lines, platform)
         IN  [deviceFramerates |-> deviceFramerates,
              framerate |-> getBestFramerate(c.deviceId, deviceFramerates, platform)]

Settle(c, rejected, lines) ==
    probed' = [caller |-> c.caller, deviceId |-> c.deviceId,
               spawnFailed |-> rejected, lines |-> lines,
               settled |-> IF rejected THEN "rejected" ELSE "resolved",
               result |-> ProberResult(c, rejected, lines)]

\* A caller calls listAvailableDevices().  spawn('') throws inside the promise
\* executor, which rejects the promise; otherwise the listing subprocess
\* exists and the caller waits.
listAvailableDevices_begin ==
    /\ BagCardinality(listings) < MaxProbes
    /\ \E c \in Probers :
          IF ~ffmpegStatic
          THEN /\ Settle(c, TRUE, <<>>)
               /\ UNCHANGED listings
          ELSE /\ listings' = listings (+)
                     SetToBag({[caller |-> c.caller, deviceId |-> c.deviceId,
                                st |-> IF binaryRuns THEN "running" ELSE "spawnError"]})
               /\ UNCHANGED probed
    /\ UNCHANGED <<sessionVars, envVars, uncaught, applied>>

\* ffmpeg.on('error', (err) => reject(`Failed to list devices: ${err}`))
listAvailableDevices_error ==
    /\ \E l \in BagToSet(listings) :
          /\ l.st = "spawnError"
          /\ listings' = listings (-) SetToBag({l})
          /\ Settle(l, TRUE, <<>>)
    /\ UNCHANGED <<sessionVars, envVars, uncaught, applied>>

\* ffmpeg.on('close', (code) => resolve(errorOutput || output))
listAvailableDevices_close ==
    /\ \E l \in BagToSet(listings) : \E lines \in ProbeListings :
          /\ l.st = "running"
          /\ listings' = listings (-) SetToBag({l})
          /\ Settle(l, FALSE, lines)
    /\ UNCHANGED <<sessionVars, envVars, uncaught, applied>>

NextProbe ==
    \/ listAvailableDevices_begin
    \/ listAvailableDevices_error
    \/ listAvailableDevices_close

\* The encoder path may be null and the binary may be missing.
InitProbe ==
    /\ InitSessions
    /\ watched = NoRequest
    /\ platform \in Platforms
    /\ binaryRuns \in BOOLEAN
    /\ uncaught = FALSE
    /\ applied = NoApplication
    /\ listings = EmptyBag
    /\ probed = NoProbe

\* The device probe alone.
SpecProbe == InitProbe /\ [][NextProbe]_vars

NextTimed == Next \/ GraceWindowPasses \/ StopTimeoutPasses

\* The sessions with the passing of time.
SpecTimed == Init /\ [][NextTimed]_vars

TypeOK ==
    /\ module \in Modules
    /\ ffmpegStatic \in BOOLEAN
    /\ \A k \in Kinds :
          Handle(k).st \in {"null", "running", "exited", "spawnError", "failed"}
    /\ \A r \in BagToSet(detached) : r.st \in {"running", "exited"}
    /\ ProcessCount <= MaxProcs
    /\ BagCardinality(calls) <= MaxCalls
    /\ streamStatus.isStreaming \in BOOLEAN

(***************************************************************************)
(* The claims.                                                             *)
(***************************************************************************)

\* A session of kind k runs: a process that a start spawned, that the
\* operating system still runs and that no stop has signalled.
RunningSession(k) ==
    \E r \in BagToSet(Processes(k)) : r.st = "running" /\ ~r.termed

\* No session of kind k is active: no start has ever spawned a process of this
\* kind, or the 'close' of every process of this kind has been handled.
NoSession(k) == Processes(k) = EmptyBag

\* C1: two starts of the same stream with no stop, no process exit and no
\* close between them never both succeed (and so never spawn two encoders):
\* one succeeds, the other is refused as already running.
C1_ConcurrentStartsOneSuccess == \A k \in Kinds : okInRow[k] <= 1

\* C2: in every reachable state at most one encoder subprocess per stream
\* kind is alive, processes that were sent SIGTERM and have not exited yet
\* included.
C2_AtMostOneAlivePerKind == \A k \in Kinds : AliveCount(k) <= 1

\* C3: stop is idempotent: a stop of a running session returns success, and
\* the stop that follows a stop of the same stream returns the no-active-stream
\* failure.
C3_StopIdempotent ==
    [][\A k \in Kinds :
         (lastEvent'.op = "stop" /\ lastEvent'.kind = k) =>
            /\ RunningSession(k) => lastEvent'.result = "Ok"
            /\ (lastEvent.op = "stop" /\ lastEvent.kind = k)
                   => lastEvent'.result = "NoActive"]_vars

\* C4: a stop called while no session is active returns the no-active-stream
\* failure, signals no process and leaves the handles and the status record
\* as they were.
C4_StopWithoutSession ==
    [][\A k \in Kinds :
         (lastEvent'.op = "stop" /\ lastEvent'.kind = k /\ NoSession(k)) =>
            /\ lastEvent'.result = "NoActive"
            /\ UNCHANGED <<ffmpegProcess, ffmpegProcess2, streamStatus, detached>>]_vars

\* C4 happens: a stop was refused while no process of its kind existed, after
\* a session of the module had crashed (the status still shows its error).
C4_Witness ==
    /\ lastEvent.op = "stop"
    /\ lastEvent.result = "NoActive"
    /\ NoSession(lastEvent.kind)
    /\ streamStatus.error = ExitMessage(1)

\* C5: after the 'close' of a process that an explicit stop had signalled,
\* with whatever exit code, the status reports no error.
C5_StopInducedExitNoError ==
    (lastEvent.op = "close" /\ lastEvent.stopped) => getRtmpStatus.error = ""

\* C6: the status never reports isStreaming = true for the subprocess of the
\* handle when that subprocess has exited within the grace window after its
\* spawn.
C6_NotStreamingWithinGrace ==
    \A k \in Kinds :
        (Handle(k).st = "exited" /\ ~Handle(k).graceOver)
            => ~getRtmpStatus.isStreaming

\* C7: once the 'close' of a process that exited by itself with a non-zero
\* code has been handled, the status says isStreaming = false with a
\* non-empty error, and the handle is null.
C7_CrashReported ==
    (lastEvent.op = "close" /\ ~lastEvent.stopped /\ lastEvent.code # 0) =>
        /\ ~getRtmpStatus.isStreaming
        /\ getRtmpStatus.error # ""
        /\ Handle(lastEvent.kind) = NoProcess

\* C7 happens: the process of the handle exited with code 1, without a stop,
\* and its 'close' has been handled.
C7_Witness ==
    /\ lastEvent.op = "close"
    /\ ~lastEvent.stopped
    /\ lastEvent.code = 1
    /\ lastEvent.referenced

\* C8: after the 'close' of a process that exited by itself with code 0, no
\* stop having been requested, the status reports an error.
C8_ZeroExitIsCrash ==
    (lastEvent.op = "close" /\ ~lastEvent.stopped /\ lastEvent.code = 0) =>
        getRtmpStatus.error # ""

\* C9: a process that was sent SIGTERM by stop and still runs when the stop
\* timeout has passed has been sent the forced kill.
C9_ForcedKillAfterTimeout ==
    \A r \in BagToSet(detached) :
        (r.st = "running" /\ r.termed /\ r.termTimeout) => r.killed

\* C10: only a start that returns success creates a process, and it creates
\* exactly one (no automatic restart); and a start that directly follows the
\* 'close' of a crashed process of its kind is not refused as already running.
C10_NoRestartRetryAccepted ==
    [][/\ ProcessCount' > ProcessCount =>
            (lastEvent'.op = "start" /\ lastEvent'.result = "Ok")
       /\ (lastEvent'.op = "start" /\ lastEvent'.result = "Ok") =>
            ProcessCount' = ProcessCount + 1
       /\ (lastEvent'.op = "start" /\ lastEvent'.afterCrash) =>
            lastEvent'.result # "AlreadyRunning"]_vars

\* C10 happens: a start directly after the 'close' of a crashed process has
\* succeeded and its new process is the only one of its kind.
C10_Witness ==
    /\ lastEvent.op = "start"
    /\ lastEvent.afterCrash
    /\ lastEvent.result = "Ok"
    /\ BagCardinality(Processes(lastEvent.kind)) = 1

\* C11: a screen start that finds no source (none with the requested screenId,
\* none by name) spawns nothing and writes nothing: over every step of such a
\* start, up to its await and from there to its not-found return, the
\* handles, the status record and the set of processes stay as they were.
C11_NotFoundNoPartialState ==
    [][(lastEvent'.op = "start" /\ lastEvent'.result \in {"Pending", "NotFound"}) =>
          /\ UNCHANGED <<ffmpegProcess, ffmpegProcess2, streamStatus, detached>>
          /\ ProcessCount' = ProcessCount]_vars

\* C11 happens: a screen start has returned not-found while the status record
\* was not in its initial state.
C11_Witness ==
    /\ lastEvent.op = "start"
    /\ lastEvent.result = "NotFound"
    /\ streamStatus # InitialStatus

\* C12: no failure of the encoder subprocess reaches the main process as an
\* unhandled exception or an unhandled 'error' event.
C12_NoFailureFatal == uncaught = FALSE

\* A sink address the encoder can publish to: it begins with 'rtmp://' or
\* with 'rtmps://'.
ValidSink(rtmpUrl) ==
    \/ StartsWith(rtmpUrl, <<"r", "t", "m", "p", ":", "/", "/">>)
    \/ StartsWith(rtmpUrl, <<"r", "t", "m", "p", "s", ":", "/", "/">>)

\* C13: no encoder is ever spawned for a request whose rtmpUrl does not begin
\* with 'rtmp://' or 'rtmps://', and the status never says streaming to such
\* an address.
C13_InvalidSinkRefused ==
    /\ spawned # NoSpawn => ValidSink(spawned.request.rtmpUrl)
    /\ streamStatus.isStreaming =>
          streamStatus.streamUrl \in {Str(url) : url \in RtmpUrls}

Positions(args, flag) == {i \in 1..Len(args) : args[i] = flag}

HeaderKeyOf(line) ==
    IF line = LineCam THEN <<"0", ":", " ", "C", "a", "m">>
    ELSE IF line = LineScreen
    THEN <<"1", ":", " ", "C", "a", "p", "t", "u", "r", "e", " ",
           "s", "c", "r", "e", "e", "n", " ", "0">>
    ELSE <<>>
RateOf(line) ==
    IF line \in {LineMode30, LineMode30b} THEN 3000
    ELSE IF line = LineMode5994 THEN 5994
    ELSE IF line = LineMode120 THEN 12000
    ELSE 0

\* The frame rates a listing gives for the device with key `key`: those of
\* the mode lines whose most recent preceding header names this device,
\* counted from the last header that names it (a header empties the list
\* of its device).
RatesOf(lines, key) ==
    LET headers == {i \in 1..Len(lines) : HeaderKeyOf(lines[i]) # <<>>}
        owner(j) == {i \in headers : i < j /\ \A h \in headers : h < j => h <= i}
    IN  {RateOf(lines[j]) :
            j \in {m \in 1..Len(lines) :
                      /\ RateOf(lines[m]) # 0
                      /\ \E i \in owner(m) : HeaderKeyOf(lines[i]) = key
                      /\ \A h \in headers :
                            h > m => HeaderKeyOf(lines[h]) # key}}

\* C16: on darwin the table parseAvailableFramerates returns has one entry
\* per device a header line names; the frame rates of an entry are those of
\* the mode lines whose most recent preceding header names its device, each
\* once; mode lines before every header and unrecognised lines add nothing.
\* On the other platforms nothing is attached to any device.
C16_ModesAttachToLatestHeader ==
    applied.fn = "parseAvailableFramerates" =>
        LET lines == applied.arg
            table == applied.out
        IN  IF platform = "darwin"
            THEN /\ {table[i].key : i \in 1..Len(table)}
                       = {HeaderKeyOf(lines[i]) : i \in 1..Len(lines)} \ {<<>>}
                 /\ \A i, j \in 1..Len(table) :
                       table[i].key = table[j].key => i = j
                 /\ \A i \in 1..Len(table) :
                       LET framerates == table[i].value
                       IN  /\ {framerates[n] : n \in 1..Len(framerates)}
                                 = RatesOf(lines, table[i].key)
                           /\ \A n, m \in 1..Len(framerates) :
                                 framerates[n] = framerates[m] => n = m
            ELSE \A i \in 1..Len(table) : table[i].value = <<>>

\* C16 happens: modes of 30.0, 30.0 and 59.94 under one header have given
\* exactly 30.0 and 59.94 for its device.
C16_Witness ==
    /\ applied.fn = "parseAvailableFramerates"
    /\ platform = "darwin"
    /\ applied.arg = <<LineCam, LineMode30, LineMode30b, LineMode5994>>
    /\ applied.out = <<[key |-> HeaderKeyOf(LineCam), value |-> <<3000, 5994>>]>>

\* The frame rates a listing reports for the device a device id resolves to:
\* the device whose index in the listing is the id ('screen:<n>:...': n).
ReportedRates(lines, deviceId) ==
    LET index == IF StartsWith(deviceId, ScreenColon)
                 THEN DigitRun(deviceId, 8) ELSE deviceId
    IN  UNION {RatesOf(lines, HeaderKeyOf(lines[i])) :
                  i \in {h \in 1..Len(lines) :
                            StartsWith(HeaderKeyOf(lines[h]), index \o <<":">>)}}

\* C17: on darwin getBestFramerate returns the highest frame rate the listing
\* reports for the device that is not above the ceiling of 60, when there is
\* one, and the platform default (60) when the listing reports no frame rate
\* for the device or does not hold it; on the other platforms, where no frame
\* rate is ever read, it returns their default (30).
C17_BestFramerateUnderCeiling ==
    applied.fn = "getBestFramerate" =>
        LET rates == ReportedRates(applied.arg.lines, applied.arg.deviceId)
            allowed == {r \in rates : r <= 6000}
        IN  IF platform # "darwin" THEN applied.out = 3000
            ELSE IF rates = {} THEN applied.out = 6000
            ELSE allowed # {} => applied.out = Greatest(allowed)

\* C18: a listing that could not be spawned and a listing that found no device
\* are told apart by every caller: when the subprocess cannot be spawned the
\* promise of listAvailableDevices rejects, 'list-ffmpeg-devices' returns
\* success = false and the capability table getBestFramerate works from is not
\* the empty table of a listing without devices; a listing that ran and found
\* no device gives success = true and the empty table.
C18_ProbeFailureIsNotAbsence ==
    probed # NoProbe =>
        /\ probed.spawnFailed => probed.settled = "rejected"
        /\ (probed.spawnFailed /\ probed.caller = "list-ffmpeg-devices") =>
               probed.result.success = FALSE
        /\ (probed.spawnFailed /\ probed.caller = "getBestFramerate") =>
               probed.result.deviceFramerates # <<>>
        /\ (~probed.spawnFailed /\ probed.lines \in {<<>>, <<LineTitle>>}) =>
               IF probed.caller = "list-ffmpeg-devices"
               THEN probed.result.success /\ probed.result.error = ""
               ELSE probed.result.deviceFramerates = <<>>

\* C19: on darwin a screenId made only of digits is the capture index as it
\* is; a screenId that holds 'screen:' followed by digits resolves to the
\* digits after the first such 'screen:'; every other screenId resolves to
\* the default index '1', and what the call returns then carries
\* usedFallback = true.
C19_ScreenIdResolution ==
    applied.fn = "screenNumericId" =>
        LET screenId == applied.arg
            index == applied.out.screenNumericId
            onlyDigits == screenId # <<>> /\ \A i \in 1..Len(screenId) : screenId[i] \in Digits
            embedded == {i \in 1..Len(screenId) :
                            /\ OccursAt(screenId, ScreenColon, i)
                            /\ At(screenId, i + 7) \in Digits}
        IN  IF onlyDigits THEN index = screenId
            ELSE IF embedded # {}
            THEN \E n \in 1..Len(screenId) :
                    /\ index = SubSeq(screenId, Least(embedded) + 7, Least(embedded) + 6 + n)
                    /\ \A j \in 1..n : index[j] \in Digits
                    /\ At(screenId, Least(embedded) + 7 + n) \notin Digits
            ELSE /\ index = <<"1">>
                 /\ "usedFallback" \in DOMAIN applied.out.returned
                 /\ applied.out.returned.usedFallback = TRUE

\* C20: what a caller got from a status getter stays as it was read, whatever
\* start, stop or 'close' event comes after the read.
C20_StatusReadIsSnapshot == held.taken => held.value = held.read

\* C21: whatever probe requests are in flight, at most one device-listing
\* subprocess is running for them.
C21_ProbesCoalesce ==
    BagCardinality(listings (-) SetToBag({l \in BagToSet(listings) : l.st # "running"})) <= 1

\* C22: while the encoder of one stream kind is referenced by its handle,
\* running and not signalled, no start, stop or 'close' of the other stream
\* kind changes the reported status.
C22_StatusPerKind ==
    [][\A k \in Kinds :
          (/\ lastEvent'.op \in {"start", "stop", "close"}
           /\ lastEvent'.kind # k
           /\ Handle(k).st = "running" /\ ~Handle(k).termed)
              => streamStatus' = streamStatus]_vars

C24_CloseAffectsOwnSessionOnly ==
    [][\A k \in Kinds :
          (/\ lastEvent'.op = "close" /\ lastEvent'.kind = k
           /\ ~lastEvent'.referenced
           /\ Handle(k).st = "running" /\ ~Handle(k).termed
           /\ streamStatus.isStreaming /\ streamStatus.error = "")
              => /\ IF k = "camera" THEN ffmpegProcess' = ffmpegProcess
                                    ELSE ffmpegProcess2' = ffmpegProcess2
                 /\ streamStatus'.isStreaming /\ streamStatus'.error = ""]_vars

\* C25: no spawned encoder that is still running and has not been signalled
\* is out of the reach of stop: every such process is the one its module's
\* handle refers to.
C25_NoOrphanedEncoder ==
    \A r \in BagToSet(detached) : ~(r.st = "running" /\ ~r.termed)

\* C26: between handlers the status and the handles agree: while a handle of
\* the module is non-null the reported status says isStreaming = true, and
\* while it says isStreaming = true a handle of the module is non-null.
C26_StatusAndHandleAgree ==
    /\ \A k \in KindsOf(module) : Handle(k) # NoProcess => streamStatus.isStreaming
    /\ streamStatus.isStreaming => \E k \in KindsOf(module) : Handle(k) # NoProcess

\* C27: a start that returns a failure (already running, source not found, or
\* an exception caught in start) creates no process, leaves both handles and
\* the processes no handle refers to as they were, and leaves isStreaming,
\* streamUrl and startTime of the status record as they were.
C27_FailedStartChangesNothing ==
    [][(/\ lastEvent'.op = "start"
        /\ lastEvent'.result \in {"AlreadyRunning", "NotFound", "Error"})
          => /\ UNCHANGED <<ffmpegProcess, ffmpegProcess2, detached>>
             /\ streamStatus'.isStreaming = streamStatus.isStreaming
             /\ streamStatus'.streamUrl = streamStatus.streamUrl
             /\ streamStatus'.startTime = streamStatus.startTime]_vars

\* A start has failed with a caught exception while a stream was running: the
\* status carries the error and still says isStreaming = true.
C27_Witness ==
    /\ lastEvent.op = "start" /\ lastEvent.result = "Error"
    /\ streamStatus.isStreaming
    /\ streamStatus.error = SourcesErrorMessage
    /\ ffmpegProcess.st = "running"

\* C28: off darwin parseAvailableFramerates returns the empty table for every
\* listing, 'fps=<n>' lines included, and getBestFramerate returns 30 for
\* every device id and every listing.
C28_NoRatesOffDarwin ==
    platform # "darwin" =>
        /\ applied.fn = "parseAvailableFramerates" => applied.out = <<>>
        /\ applied.fn = "getBestFramerate" => applied.out = 3000

\* getBestFramerate has answered 30 on win32 for a listing that holds a
\* device header and an 'fps=30' line.
C28_Witness ==
    /\ platform = "win32"
    /\ applied.fn = "getBestFramerate"
    /\ applied.arg.lines = <<LineCam, LineDshow>>
    /\ applied.out = 3000

\* C29: on darwin the index startScreenRtmpStream captures for a screen id is
\* the index getBestFramerate looks up for the same id.
C29_ResolversAgree ==
    applied.fn = "resolvers" =>
        applied.out.screenNumericId = applied.out.ffmpegDeviceId

\* C30: on darwin getBestFramerate answers for the device whose index in the
\* listing is the resolved device id: the greatest of the frame rates the
\* listing reports for that device, and the default (60) when it reports none
\* for it; never a frame rate of another device.
C30_RequestedDeviceOnly ==
    (applied.fn = "getBestFramerate" /\ platform = "darwin") =>
        LET lines == applied.arg.lines
            index == FfmpegDeviceId(applied.arg.deviceId, platform)
            rates == UNION {RatesOf(lines, HeaderKeyOf(lines[h])) :
                               h \in {i \in 1..Len(lines) :
                                         StartsWith(HeaderKeyOf(lines[i]),
                                                    index \o <<":">>)}}
        IN  applied.out = IF rates # {} THEN Greatest(rates) ELSE 6000

=============================================================================
